---- MODULE Spec2Model ----
(***************************************************************************)
(* Model of the Magento endpoint scraper (src/main.py):                    *)
(*   - normalize_size and the variant selection of fetch_product_variants  *)
(*   - the extraction cascade extract_from_html_json /                     *)
(*     extract_from_html_structure / extract_simple_product_pattern        *)
(*   - extract_product_info (source 'category')                            *)
(*   - extract_with_pagination and scrape_products                         *)
(*                                                                         *)
(* Texts that the code inspects character by character (size texts, table  *)
(* rows, page bodies) are sequences of one-character strings.  Names,      *)
(* prices and URLs, which the code only compares, tests for truth and      *)
(* concatenates, are strings.                                              *)
(*                                                                         *)
(* Magnitudes are fixed-point integers in units of 10^-5: the numeric      *)
(* token is read in tenths and the conversion factors are scaled by 10^4.  *)
(***************************************************************************)
EXTENDS Integers, Sequences, FiniteSets, TLC

\* ------------------------------------------------------------------------
\* Characters and texts
\* ------------------------------------------------------------------------

UpperChars == <<"A","B","C","D","E","F","G","H","I","J","K","L","M",
                "N","O","P","Q","R","S","T","U","V","W","X","Y","Z">>

LowerChars == <<"a","b","c","d","e","f","g","h","i","j","k","l","m",
                "n","o","p","q","r","s","t","u","v","w","x","y","z">>

DigitChars == <<"0","1","2","3","4","5","6","7","8","9">>

IsDigit(c) == \E i \in 1..10 : DigitChars[i] = c

DigitVal(c) == (CHOOSE i \in 1..10 : DigitChars[i] = c) - 1

\* str.lower() on one character
LowerChar(c) ==
    IF \E i \in 1..26 : UpperChars[i] = c
    THEN LowerChars[CHOOSE i \in 1..26 : UpperChars[i] = c]
    ELSE c

\* str.lower()
ToLower(s) == [i \in 1..Len(s) |-> LowerChar(s[i])]

\* str.replace(' ', '')
RemoveSpaces(s) == SelectSeq(s, LAMBDA c : c # " ")

\* `sub in s`
Contains(s, sub) ==
    \E i \in 1..(Len(s) - Len(sub) + 1) : SubSeq(s, i, i + Len(sub) - 1) = sub

\* s.endswith(sub)
EndsWith(s, sub) ==
    /\ Len(s) >= Len(sub)
    /\ SubSeq(s, Len(s) - Len(sub) + 1, Len(s)) = sub

\* \w of the re module, on the characters the model uses
IsWordChar(c) ==
    \/ IsDigit(c)
    \/ c = "_"
    \/ \E i \in 1..26 : UpperChars[i] = c \/ LowerChars[i] = c

\* length of the run of digits of s that starts at position i
RECURSIVE DigitRun(_, _)
DigitRun(s, i) ==
    IF i <= Len(s) /\ IsDigit(s[i]) THEN 1 + DigitRun(s, i + 1) ELSE 0

\* length of the run of blanks of s that starts at position i
RECURSIVE SpaceRun(_, _)
SpaceRun(s, i) ==
    IF i <= Len(s) /\ s[i] = " " THEN 1 + SpaceRun(s, i + 1) ELSE 0

\* int() of a sequence of digits
RECURSIVE ParseInt(_)
ParseInt(ds) ==
    IF ds = <<>> THEN 0
    ELSE 10 * ParseInt(SubSeq(ds, 1, Len(ds) - 1)) + DigitVal(ds[Len(ds)])

\* ------------------------------------------------------------------------
\* normalize_size (src/main.py 455-480)
\* ------------------------------------------------------------------------

\* float('inf')
Infinity == 2147483647

\* conversion factors, scaled by 10^4
FlozFactor == 295735
MlFactor == 10000
LiterFactor == 10000000
GalFactor == 37854100
OzFactor == 283495
LbFactor == 4535920
KgFactor == 10000000
GramFactor == 10000

\* re.search(r'([0-9]+(?:\.[0-9]+)?)', s): position of the first digit, 0
\* when there is none
NumberStart(s) ==
    IF \E i \in 1..Len(s) : IsDigit(s[i])
    THEN CHOOSE i \in 1..Len(s) :
            IsDigit(s[i]) /\ \A j \in 1..(i - 1) : ~IsDigit(s[j])
    ELSE 0

\* float(m.group(1)) in tenths; the texts of the model carry at most one
\* digit after the point
NumberTenths(s) ==
    LET i == NumberStart(s)
        d == DigitRun(s, i)
        hasFrac == /\ i + d + 1 <= Len(s)
                   /\ s[i + d] = "."
                   /\ IsDigit(s[i + d + 1])
    IN  10 * ParseInt(SubSeq(s, i, i + d - 1))
          + (IF hasFrac THEN DigitVal(s[i + d + 1]) ELSE 0)

\* re.search(r'\boz\b', s)
WordOz(s) ==
    \E i \in 1..(Len(s) - 1) :
        /\ s[i] = "o" /\ s[i + 1] = "z"
        /\ (i = 1 \/ ~IsWordChar(s[i - 1]))
        /\ (i + 1 = Len(s) \/ ~IsWordChar(s[i + 2]))

\* lines 463-480: the chain of unit tests on the cleaned text s, val being
\* float(m.group(1))
Converted(s, val) ==
    IF Contains(s, <<"f","l","o","z">>) \/ Contains(s, <<"f","l",".","o","z">>)
    THEN [mag |-> val * FlozFactor, family |-> "volume"]
    ELSE IF Contains(s, <<"m","l">>)
         THEN [mag |-> val * MlFactor, family |-> "volume"]
    ELSE IF \/ Contains(s, <<"l","i","t","e","r">>)
            \/ Contains(s, <<"l","i","t","r","e">>)
            \/ EndsWith(s, <<"l">>)
         THEN [mag |-> val * LiterFactor, family |-> "volume"]
    ELSE IF Contains(s, <<"g","a","l">>) \/ Contains(s, <<"g","a","l","l","o","n">>)
         THEN [mag |-> val * GalFactor, family |-> "volume"]
    ELSE IF WordOz(s) /\ ~Contains(s, <<"f","l","o","z">>)
         THEN [mag |-> val * OzFactor, family |-> "weight"]
    ELSE IF \/ Contains(s, <<"l","b">>) \/ Contains(s, <<"l","b","s">>)
            \/ Contains(s, <<"p","o","u","n","d">>)
         THEN [mag |-> val * LbFactor, family |-> "weight"]
    ELSE IF Contains(s, <<"k","g">>) \/ Contains(s, <<"k","i","l","o","g","r","a","m">>)
         THEN [mag |-> val * KgFactor, family |-> "weight"]
    ELSE IF Contains(s, <<"g">>)
         THEN [mag |-> val * GramFactor, family |-> "weight"]
    ELSE [mag |-> Infinity, family |-> "unknown"]

\* lines 455-480: the magnitude with its family; the family is what the
\* branch taken says of the unit
normalize_size(size_text) ==
    LET s == RemoveSpaces(ToLower(size_text))
    IN  IF NumberStart(s) = 0 THEN [mag |-> Infinity, family |-> "unknown"]
        ELSE Converted(s, NumberTenths(s))

\* ------------------------------------------------------------------------
\* Row and page size patterns of fetch_product_variants (src/main.py 419-429,
\* 496-503)
\* ------------------------------------------------------------------------

\* the token standing for `\s*` inside an alternative
AnySpaces == "\\s*"

\* (?:oz|lb|lbs|gal|kg|g|fl\s*oz|ounce|pound|gallon|kilogram), in order
RowUnits1 ==
    << <<"o","z">>, <<"l","b">>, <<"l","b","s">>, <<"g","a","l">>, <<"k","g">>,
       <<"g">>, <<"f","l",AnySpaces,"o","z">>, <<"o","u","n","c","e">>,
       <<"p","o","u","n","d">>, <<"g","a","l","l","o","n">>,
       <<"k","i","l","o","g","r","a","m">> >>

\* (?:ml|liter|litre|l), in order
RowUnits2 ==
    << <<"m","l">>, <<"l","i","t","e","r">>, <<"l","i","t","r","e">>, <<"l">> >>

\* (?:oz|lb|lbs|gal|kg|g|fl\s*oz), in order: the page-wide fallback
PageUnits1 ==
    << <<"o","z">>, <<"l","b">>, <<"l","b","s">>, <<"g","a","l">>, <<"k","g">>,
       <<"g">>, <<"f","l",AnySpaces,"o","z">> >>

\* last position matched when alternative a, from its j-th element on,
\* matches s at position p (re.IGNORECASE); -1 when it does not
RECURSIVE LitEnd(_, _, _, _)
LitEnd(s, p, a, j) ==
    IF j > Len(a) THEN p - 1
    ELSE IF a[j] = AnySpaces THEN LitEnd(s, p + SpaceRun(s, p), a, j + 1)
    ELSE IF p <= Len(s) /\ LowerChar(s[p]) = a[j] THEN LitEnd(s, p + 1, a, j + 1)
    ELSE -1

\* the first alternative, in order, that matches s at p decides the end
AltEnd(s, p, alts) ==
    LET ok == {k \in 1..Len(alts) : LitEnd(s, p, alts[k], 1) # -1}
    IN  IF ok = {} THEN -1
        ELSE LitEnd(s, p, alts[CHOOSE k \in ok : \A m \in ok : k <= m], 1)

\* digits of the fraction (?:\.\d+)? available after the integer part
FracRun(s, p) ==
    IF p <= Len(s) /\ s[p] = "." THEN DigitRun(s, p + 1) ELSE 0

\* position after the number of candidate c = <<integer digits, fraction
\* digits, blanks>> that starts at i
AfterNumber(i, c) == i + c[1] + (IF c[2] > 0 THEN c[2] + 1 ELSE 0)

\* the candidate the greedy quantifiers try first: the longest integer
\* part, then the longest fraction, then the longest run of blanks
Greediest(cands) ==
    CHOOSE c \in cands : \A e \in cands :
        \/ c[1] > e[1]
        \/ c[1] = e[1] /\ c[2] > e[2]
        \/ c[1] = e[1] /\ c[2] = e[2] /\ c[3] >= e[3]

\* end of the match of the greediest candidate; -1 when there is none
GreedyEnd(s, i, alts, cands) ==
    IF cands = {} THEN -1
    ELSE AltEnd(s, AfterNumber(i, Greediest(cands)) + Greediest(cands)[3], alts)

\* \d+(?:\.\d+)?\s*(?:alts) anchored at i: greedy with backtracking over
\* the candidates for which an alternative matches; -1 when none does
SizeMatchAt(s, i, alts) ==
    GreedyEnd(s, i, alts,
              {c \in (1..DigitRun(s, i)) \X (0..Len(s)) \X (0..Len(s)) :
                  /\ c[2] <= FracRun(s, i + c[1])
                  /\ c[3] <= SpaceRun(s, AfterNumber(i, c))
                  /\ AltEnd(s, AfterNumber(i, c) + c[3], alts) # -1})

\* the leftmost of a set of matches [start, end]; start = 0 when the set
\* is empty
Leftmost(hits) ==
    IF hits = {} THEN [start |-> 0, end |-> 0]
    ELSE CHOOSE h \in hits : \A g \in hits : h.start <= g.start

\* re.search(pattern, s, re.IGNORECASE): the leftmost match, as
\* [start, end]; start = 0 when there is none
SearchSize(s, alts) ==
    Leftmost({m \in {[start |-> i, end |-> SizeMatchAt(s, i, alts)] : i \in 1..Len(s)} :
                 m.end # -1})

\* str.strip() (blanks)
RECURSIVE Strip(_)
Strip(s) ==
    IF s = <<>> THEN s
    ELSE IF s[1] = " " THEN Strip(Tail(s))
    ELSE IF s[Len(s)] = " " THEN Strip(SubSeq(s, 1, Len(s) - 1))
    ELSE s

\* group(1).strip() of the first of the matches m1, m2 that exists, <<>>
\* (None) when neither does
FirstGroup(s, m1, m2) ==
    IF m1.start # 0 THEN Strip(SubSeq(s, m1.start, m1.end))
    ELSE IF m2.start # 0 THEN Strip(SubSeq(s, m2.start, m2.end))
    ELSE <<>>

\* the loop over size_patterns, which stops at the first pattern that
\* matches
FindSize(s, units1, units2) ==
    FirstGroup(s, SearchSize(s, units1), SearchSize(s, units2))

\* ------------------------------------------------------------------------
\* fetch_product_variants (src/main.py 393-522)
\*
\* A detail-page response is
\*   [exc, status, table, rows, body, body_price]
\* exc: session.get (or anything else inside the try) raised; table: the
\* grouped-table pattern matched; rows: the <tr> fragments of that table,
\* each [text, price] with text the characters the size patterns run over
\* and price the group captured by the first price pattern that matches
\* ("" when none does); body: the characters of the page outside the table;
\* body_price: the group captured by the price pattern in the 200-character
\* window around the size token of the body ("" when none).
\* ------------------------------------------------------------------------

NA == <<"N","/","A">>

VariousSizes ==
    <<"V","a","r","i","o","u","s"," ","s","i","z","e","s"," ",
      "a","v","a","i","l","a","b","l","e">>

Sentinel == [size |-> VariousSizes, price |-> "N/A"]

\* the result of a call that left by an exception, and of a loop that found
\* nothing (best = None)
Raised == [raised |-> TRUE]
NoneFound == [none |-> TRUE]

\* lines 417-451, one row: the size the patterns find in it and its price
RowVariant(row) ==
    [size |-> FindSize(row.text, RowUnits1, RowUnits2),
     price |-> IF row.price # "" THEN "$" \o row.price ELSE "N/A"]

\* lines 416-451: the rows in which a size pattern matched
CollectVariants(rows) ==
    SelectSeq([k \in 1..Len(rows) |-> RowVariant(rows[k])],
              LAMBDA v : v.size # <<>>)

\* lines 481-487: index of best, 0 while best is None
RECURSIVE SmallestLoop(_, _, _, _)

\* lines 485-487 with `<=` in place of `<`
SmallestStepLastWins(variants, i, best, best_norm, norm) ==
    IF norm <= best_norm
    THEN SmallestLoop(variants, i + 1, i, norm)
    ELSE SmallestLoop(variants, i + 1, best, best_norm)

\* lines 485-487: the variant replaces best only when strictly smaller
SmallestStep(variants, i, best, best_norm, norm) ==
    IF norm < best_norm
    THEN SmallestLoop(variants, i + 1, i, norm)
    ELSE SmallestLoop(variants, i + 1, best, best_norm)

SmallestLoop(variants, i, best, best_norm) ==
    IF i > Len(variants) THEN best
    ELSE SmallestStep(variants, i, best, best_norm,
                      normalize_size(variants[i].size).mag)

\* lines 489-493: best when the loop assigned it, else all_variants[0]
BestOrFirst(variants, best) ==
    IF best # 0 THEN variants[best] ELSE variants[1]

\* lines 481-493
ChooseVariant(variants) ==
    BestOrFirst(variants, SmallestLoop(variants, 1, 0, Infinity))

\* lines 505-517: the variant made of the page's first size token
TokenVariant(resp, tok) ==
    IF tok # <<>>
    THEN [size |-> tok,
          price |-> IF resp.body_price # "" THEN "$" \o resp.body_price ELSE "N/A"]
    ELSE NoneFound

\* lines 495-517: the first size token of the page and the price near it
PageFallback(resp) ==
    TokenVariant(resp, FindSize(resp.body, PageUnits1, RowUnits2))

\* lines 453-517: the selection among the table's variants, else the
\* page-wide fallback
Selected(resp, variants) ==
    IF variants # <<>> THEN ChooseVariant(variants) ELSE PageFallback(resp)

\* the try block with the status test of line 401 left out
VariantsTryIgnoringStatus(resp) ==
    IF resp.exc THEN Raised
    ELSE Selected(resp, IF resp.table THEN CollectVariants(resp.rows) ELSE <<>>)

\* lines 397-517, the try block: a returned mapping, Raised, or NoneFound
\* when control falls out of the block
VariantsTry(resp) ==
    IF resp.exc THEN Raised
    ELSE IF resp.status # 200 THEN NoneFound
    ELSE Selected(resp, IF resp.table THEN CollectVariants(resp.rows) ELSE <<>>)

\* lines 519-522: the except clause swallows the exception, and line 522
\* returns the sentinel when the try block returned nothing
OrSentinel(r) ==
    IF r = Raised \/ r = NoneFound THEN Sentinel ELSE r

\* lines 393-522
fetch_product_variants(resp) == OrSentinel(VariantsTry(resp))

\* ------------------------------------------------------------------------
\* Raw product records and their values
\*
\* A value of a raw record is Missing (the key is absent, .get gives None),
\* Str(v) or Num(v); v is a sequence of characters for names and sizes and a
\* string for prices and URLs; a number carries its decimal rendering.
\* ------------------------------------------------------------------------

Missing == [t |-> "none"]
Str(v) == [t |-> "str", v |-> v]
Num(v) == [t |-> "num", v |-> v]

\* truth value of a name or size: None and '' are false
TruthyText(x) == x.t = "str" /\ x.v # <<>>

\* truth value of a price or URL: None, '' and 0 are false
TruthyVal(x) == (x.t = "str" /\ x.v # "") \/ (x.t = "num" /\ x.v # "0")

Unknown == <<"U","n","k","n","o","w","n">>

NoAttributes == [form |-> "absent", items |-> <<>>]

\* a mapping without keys; kind "scalar" is an element of the JSON list that
\* is no mapping
EmptyRecord ==
    [kind |-> "dict", name |-> Missing, title |-> Missing, label |-> Missing,
     price |-> Missing, final_price |-> Missing, regular_price |-> Missing,
     special_price |-> Missing, size |-> Missing, weight |-> Missing,
     volume |-> Missing, capacity |-> Missing, amount |-> Missing,
     custom_attributes |-> NoAttributes,
     url |-> Missing, link |-> Missing, product_url |-> Missing]

\* ------------------------------------------------------------------------
\* The extraction cascade (src/main.py 195-345)
\*
\* A listing page response is
\*   [exc, status, product, starting, json, lis, lines]
\* exc: session.get raised; product, starting: 'product' and 'starting at'
\* occur in the lower-cased text; json: the substrings matched by the JSON
\* patterns, in the order the loops of lines 209-211 visit them, each
\* [t, products, items] with t "invalid" (json.loads raises), "list" (items
\* is the list) or "dict" (products is "absent", "other" or "list", and then
\* items is data['products']); lis: the <li> fragments matched by the
\* product-item pattern, each [anchors, price] with anchors the (href, text)
\* pairs of the link pattern and price the group of the first price pattern
\* that matches ("" when none); lines: the lines of the page, each
\* [anchor, price] with anchor the text matched by the link pattern (<<>>
\* when it does not match) and price the group of the 'Starting at' pattern.
\* The sku key of HTML-derived records is read by nothing and is left out.
\* ------------------------------------------------------------------------

StopWords3 == { <<"v","i","e","w">>, <<"d","e","t","a","i","l","s">>, <<"m","o","r","e">> }

StopWords7 ==
    StopWords3 \cup { <<"h","o","m","e">>, <<"c","o","n","t","a","c","t">>,
                      <<"a","b","o","u","t">>, <<"b","l","o","g">> }

\* lines 274-276, 318-321: longer than three characters, and its lowercase
\* form is none of the stop words
QualifiesAsName(text, stop_words) ==
    /\ Len(text) > 3
    /\ \A w \in stop_words :
          \/ Len(w) # Len(text)
          \/ \E i \in 1..Len(w) : LowerChar(text[i]) # w[i]

\* lines 255-295: the raw record of one fragment, NoneFound for None
parse_product_html(li) ==
    LET good == {i \in 1..Len(li.anchors) :
                    QualifiesAsName(Strip(li.anchors[i].text), StopWords3)}
    IN  IF good = {} THEN NoneFound
        ELSE LET a == li.anchors[CHOOSE i \in good : \A j \in good : i <= j]
             IN  [EmptyRecord EXCEPT
                    !.name = Str(Strip(a.text)),
                    !.price = Str(IF li.price # "" THEN "$" \o li.price ELSE "N/A"),
                    !.url = Str(a.href),
                    !.size = Str(VariousSizes)]

\* lines 308-333: the loop over the lines.  current_product is a reference:
\* objs holds the dicts created so far, cur the index of the one
\* current_product refers to (0 for the empty dict), products the indices
\* appended to the list
RECURSIVE SimpleLoop(_, _, _, _)
SimpleLoop(lines, objs, cur, products) ==
    IF lines = <<>> THEN [objs |-> objs, cur |-> cur, products |-> products]
    ELSE LET line == Head(lines)
             name_match == line.anchor # <<>>
             flushed == IF name_match /\ cur # 0 THEN Append(products, cur) ELSE products
             product_name == Strip(line.anchor)
             fresh == name_match /\ QualifiesAsName(product_name, StopWords7)
             objs1 == IF fresh
                      THEN Append(objs, [EmptyRecord EXCEPT
                                            !.name = Str(product_name),
                                            !.price = Str("N/A"),
                                            !.url = Str("N/A"),
                                            !.size = Str(VariousSizes)])
                      ELSE objs
             cur1 == IF fresh THEN Len(objs1) ELSE cur
             objs2 == IF line.price # "" /\ cur1 # 0
                      THEN [objs1 EXCEPT ![cur1].price = Str("$" \o line.price)]
                      ELSE objs1
         IN  SimpleLoop(Tail(lines), objs2, cur1, flushed)

\* what the extraction functions return: None, or a list
NoList == [none |-> TRUE, list |-> <<>>]
List(l) == [none |-> FALSE, list |-> l]

\* lines 335-336: the product current_product refers to is appended last
LastFlush(r) ==
    [r EXCEPT !.products = IF r.cur # 0 THEN Append(@, r.cur) ELSE @]

\* line 345: the list of the dicts appended, None when it is empty
Dereferenced(r) ==
    IF r.products # <<>>
    THEN List([i \in 1..Len(r.products) |-> r.objs[r.products[i]]])
    ELSE NoList

\* lines 297-345
extract_simple_product_pattern(page) ==
    Dereferenced(LastFlush(SimpleLoop(page.lines, <<>>, 0, <<>>)))

\* lines 243-246
ParseFragments(lis) ==
    SelectSeq([k \in 1..Len(lis) |-> parse_product_html(lis[k])],
              LAMBDA product_info : product_info # NoneFound)

\* lines 248-253: the products when there are any, else what the simple
\* pattern gives
ListOr(products, otherwise) ==
    IF products # <<>> THEN List(products) ELSE otherwise

\* lines 231-253
extract_from_html_structure(page) ==
    ListOr(ParseFragments(page.lis), extract_simple_product_pattern(page))

\* lines 211-226: whether the match makes the function return
JsonReturns(m) ==
    \/ m.t = "list" /\ Len(m.items) > 0
    \/ m.t = "dict" /\ m.products = "list"

\* lines 195-229
extract_from_html_json(page) ==
    LET hits == {i \in 1..Len(page.json) : JsonReturns(page.json[i])}
    IN  IF hits # {} THEN List(page.json[CHOOSE i \in hits : \A j \in hits : i <= j].items)
        ELSE extract_from_html_structure(page)

\* ------------------------------------------------------------------------
\* extract_product_info with source 'category' (src/main.py 524-624)
\* ------------------------------------------------------------------------

size_fields == <<"size", "weight", "volume", "capacity", "amount">>

Field(product_data, f) ==
    CASE f = "size" -> product_data.size
      [] f = "weight" -> product_data.weight
      [] f = "volume" -> product_data.volume
      [] f = "capacity" -> product_data.capacity
      [] f = "amount" -> product_data.amount

\* lines 568-570
NameOf(product_data) ==
    IF TruthyText(product_data.name) THEN product_data.name
    ELSE IF TruthyText(product_data.title) THEN product_data.title
    ELSE IF product_data.label # Missing THEN product_data.label
    ELSE Str(Unknown)

\* lines 573-580
PriceOf(product_data) ==
    LET price == IF TruthyVal(product_data.price) THEN product_data.price
                 ELSE IF TruthyVal(product_data.final_price) THEN product_data.final_price
                 ELSE IF TruthyVal(product_data.regular_price) THEN product_data.regular_price
                 ELSE IF TruthyVal(product_data.special_price) THEN product_data.special_price
                 ELSE Str("N/A")
    IN  IF price.t = "num" THEN "$" \o price.v ELSE price.v

\* lines 583-587: the first literal field present, else the default 'N/A'
LiteralSize(product_data) ==
    LET present == {i \in 1..Len(size_fields) : Field(product_data, size_fields[i]) # Missing}
    IN  IF present = {} THEN NA
        ELSE Field(product_data, size_fields[CHOOSE i \in present : \A j \in present : i <= j]).v

InSizeFields(code) == \E i \in 1..Len(size_fields) : size_fields[i] = code

\* lines 590-603: the size after the custom attributes were looked at; in the
\* list form items are [code, value] in list order, in the mapping form they
\* are the entries of the mapping
CustomSize(product_data, size) ==
    LET ca == product_data.custom_attributes
        listHits == {i \in 1..Len(ca.items) : InSizeFields(ca.items[i].code)}
        dictHits == {i \in 1..Len(size_fields) :
                        \E k \in 1..Len(ca.items) : ca.items[k].code = size_fields[i]}
    IN  IF ca.form = "list" /\ listHits # {}
        THEN ca.items[CHOOSE i \in listHits : \A j \in listHits : i <= j].value
        ELSE IF ca.form = "dict" /\ dictHits # {}
        THEN LET f == size_fields[CHOOSE i \in dictHits : \A j \in dictHits : i <= j]
             IN  ca.items[CHOOSE k \in 1..Len(ca.items) : ca.items[k].code = f].value
        ELSE size

\* lines 566-603: product_info before the enrichment
BaseInfo(product_data) ==
    [name |-> NameOf(product_data),
     price |-> PriceOf(product_data),
     size |-> CustomSize(product_data, LiteralSize(product_data))]

\* an AttributeError inside extract_product_info: product_data is no mapping,
\* or custom_attributes is a list holding something that is no mapping
InfoRaises(product_data) ==
    \/ product_data.kind # "dict"
    \/ product_data.custom_attributes.form = "badlist"

\* line 607
ProductUrl(product_data) ==
    IF TruthyVal(product_data.url) THEN product_data.url
    ELSE IF TruthyVal(product_data.link) THEN product_data.link
    ELSE product_data.product_url

\* lines 606-608: the variant resolver is called
NeedsVariants(product_data) ==
    /\ BaseInfo(product_data).size \in {NA, VariousSizes}
    /\ TruthyVal(ProductUrl(product_data))

\* lines 613-617 with the price overwritten whatever the variant's price
EnrichPriceAlways(info, variant) ==
    IF variant.size # VariousSizes
    THEN [info EXCEPT !.size = variant.size, !.price = variant.price]
    ELSE info

\* lines 613-617
Enrich(product_info, variant) ==
    IF variant.size # VariousSizes
    THEN [product_info EXCEPT
            !.size = variant.size,
            !.price = IF variant.price # "N/A" THEN variant.price ELSE product_info.price]
    ELSE product_info

\* lines 524-624; resp is the response of the detail page, fetched only when
\* NeedsVariants holds
extract_product_info(product_data, resp) ==
    IF NeedsVariants(product_data)
    THEN Enrich(BaseInfo(product_data), fetch_product_variants(resp))
    ELSE BaseInfo(product_data)

\* ------------------------------------------------------------------------
\* extract_with_pagination and scrape_products (src/main.py 627-701)
\* ------------------------------------------------------------------------

\* max_pages of the call of line 685
MaxPages == 30

\* lines 636-639
PageUrl(base_url, page) ==
    base_url.text \o (IF base_url.has_query THEN "&p=" ELSE "?p=") \o ToString(page)

\* lines 656-662: the page's records extend all_products, and a page
\* without records ends the loop
PageResult(page_products) ==
    IF ~page_products.none /\ page_products.list # <<>>
    THEN [stop |-> FALSE, page_products |-> page_products.list]
    ELSE [stop |-> TRUE, page_products |-> <<>>]

\* lines 641-668 for one response, letting a page without the markers be
\* skipped instead of ending the loop
PaginationStepSkipping(resp) ==
    IF resp.exc THEN [stop |-> TRUE, page_products |-> <<>>]
    ELSE IF resp.status # 200 THEN [stop |-> TRUE, page_products |-> <<>>]
    ELSE IF ~(resp.product /\ resp.starting) THEN [stop |-> FALSE, page_products |-> <<>>]
    ELSE PageResult(extract_from_html_json(resp))

\* lines 641-668 for one response: whether the loop is left (break), and the
\* records all_products is extended with
PaginationStep(resp) ==
    IF resp.exc THEN [stop |-> TRUE, page_products |-> <<>>]
    ELSE IF resp.status # 200 THEN [stop |-> TRUE, page_products |-> <<>>]
    ELSE IF ~(resp.product /\ resp.starting) THEN [stop |-> TRUE, page_products |-> <<>>]
    ELSE PageResult(extract_from_html_json(resp))

\* line 633 with a range one page too long
LoopEndsLate(stop, p) == stop \/ p = MaxPages + 1

\* lines 633-668: the loop is left by a break or after page max_pages
LoopEnds(stop, p) == stop \/ p = MaxPages

\* line 690: any(p.get('name') == product.get('name') for p in products)
IsDuplicate(products, product) ==
    \E i \in 1..Len(products) : products[i].name = product.name

\* an exception of the loop body leaving scrape_products
RecordExceptionEscapes(u) ==
    [pc |-> "done", ui |-> u, escaped |-> TRUE]

\* lines 693-695: the except clause of the loop over the URLs
AfterRecordException(u) ==
    [pc |-> "next_url", ui |-> u + 1, escaped |-> FALSE]

\* lines 688-692 for one record: what happens to it
RecordOutcome(products, product) ==
    IF product.kind # "dict" THEN "raised"
    ELSE IF IsDuplicate(products, product) THEN "duplicate"
    ELSE IF InfoRaises(product) THEN "raised"
    ELSE "appended"

\* lines 690-691 with the detail page fetched before the duplicate test
FetchesBeforeDedup(outcome, product) ==
    outcome \in {"appended", "duplicate"} /\ NeedsVariants(product)

\* lines 690-691, 606-612: the detail page of the record is fetched; only
\* extract_product_info fetches it, and only a record that is no duplicate
\* gets there
Fetches(outcome, product) ==
    outcome = "appended" /\ NeedsVariants(product)

\* ------------------------------------------------------------------------
\* State
\* ------------------------------------------------------------------------

VARIABLES
    size_text,      \* the argument of normalize_size
    norm,           \* its result
    detail,         \* the detail-page response of the last variant fetch
    variant_data,   \* the result of the last fetch_product_variants call
    pc,             \* where scrape_products is
    ui,             \* index of the listing URL of the loop of line 683
    endless,        \* the listing of the current URL never runs out of pages
    page,           \* page of extract_with_pagination
    all_products,   \* all_products of extract_with_pagination
    requested,      \* the page URLs requested for the current listing URL
    responses,      \* the responses they got
    ri,             \* index of the record of the loop of line 688
    products,       \* products of scrape_products
    escaped,        \* an exception left scrape_products
    seen,           \* the raw records returned so far, by name
    last,           \* what the loop of line 688 did last
    html_content,   \* the argument of extract_from_html_json
    extracted,      \* its result
    product_data,   \* the argument of extract_product_info
    product_info    \* its result

sizeVars == <<size_text, norm>>
variantVars == <<detail, variant_data>>
walkVars == <<pc, ui, endless, page, all_products, requested, responses, ri,
              products, escaped, seen, last>>
extractVars == <<html_content, extracted>>
infoVars == <<product_data, product_info>>
vars == <<size_text, norm, detail, variant_data, pc, ui, endless, page,
          all_products, requested, responses, ri, products, escaped, seen, last,
          html_content, extracted, product_data, product_info>>

NotComputed == [mag |-> -1, family |-> "none"]
NoDetail == [exc |-> FALSE, status |-> 0, table |-> FALSE, rows |-> <<>>,
             body |-> <<>>, body_price |-> ""]
NoVariant == [size |-> <<>>, price |-> ""]
NothingSeen == [first |-> <<>>, named |-> <<>>, differs |-> {}]
NoLast == [outcome |-> "none", raw |-> EmptyRecord, fetched |-> FALSE]
NoPage == [exc |-> FALSE, status |-> 0, product |-> FALSE, starting |-> FALSE,
           json |-> <<>>, lis |-> <<>>, lines |-> <<>>]
NotExtracted == [none |-> FALSE, list |-> <<>>, called |-> FALSE]
NoInfo == [name |-> Missing, price |-> "", size |-> <<>>]

\* ------------------------------------------------------------------------
\* Size texts and detail pages the operations are applied to
\* ------------------------------------------------------------------------

\* rows of a grouped table are taken up to this length
MaxRows == 2

Numbers == { <<"1">>, <<"2">>, <<"4">>, <<"3",".","5">> }

Separators == { <<>>, <<" ">> }

Units ==
    { <<"o","z">>, <<"l","b">>, <<"l","b","s">>, <<"g","a","l">>,
      <<"g","a","l","l","o","n">>, <<"k","g">>, <<"k","i","l","o","g","r","a","m">>,
      <<"g">>, <<"f","l"," ","o","z">>, <<"m","l">>, <<"l","i","t","e","r">>,
      <<"l">>, <<"o","u","n","c","e">>, <<"p","o","u","n","d">> }

Gal1 == <<"1"," ","g","a","l">>
Oz16 == <<"1","6"," ","o","z">>
Kg1 == <<"1"," ","k","g">>
Ml500 == <<"5","0","0"," ","m","l">>
Assorted == <<"a","s","s","o","r","t","e","d">>
Oz4 == <<"4","o","z">>
Oz8 == <<"8","o","z">>
Gal1NoBlank == <<"1","g","a","l">>
Gram5 == <<"5"," ","g">>

SizeTexts ==
    {n \o sep \o u : n \in Numbers, sep \in Separators, u \in Units}
      \cup { Oz16, Ml500, Assorted, <<"1","6",".","o","z">>,
             <<"1"," ","G","A","L">>, <<"o","n","e"," ","s","i","z","e">>, <<>> }

\* the rows of the grouped tables
Rows ==
    { [text |-> Oz4, price |-> "10"],
      [text |-> Oz8, price |-> "18"],
      [text |-> Gal1NoBlank, price |-> "80"],
      [text |-> Kg1, price |-> "40"],
      [text |-> <<"1","0","0","0"," ","g">>, price |-> ""],
      [text |-> Gram5, price |-> "3"],
      [text |-> Assorted, price |-> "9"] }

RECURSIVE SeqsUpTo(_, _)
SeqsUpTo(S, n) ==
    IF n = 0 THEN { <<>> }
    ELSE LET shorter == SeqsUpTo(S, n - 1)
         IN  shorter \cup {Append(q, x) : q \in {r \in shorter : Len(r) = n - 1}, x \in S}

DetailPages ==
    [exc : {FALSE}, status : {200, 404}, table : {TRUE}, rows : SeqsUpTo(Rows, MaxRows),
     body : { <<>> }, body_price : {""}]
    \cup
    [exc : {FALSE}, status : {200, 404}, table : BOOLEAN, rows : { <<>> },
     body : { <<>>, Ml500, Assorted }, body_price : {"", "7.50"}]
    \cup
    [exc : {TRUE}, status : {0}, table : {FALSE}, rows : { <<>> },
     body : { <<>> }, body_price : {""}]

\* ------------------------------------------------------------------------
\* The size normalizer and the variant resolver on their own
\* ------------------------------------------------------------------------


\* scrape_products is not running
WalkIdle ==
    /\ pc = "idle"
    /\ ui = 0
    /\ endless = FALSE
    /\ page = 0
    /\ all_products = <<>>
    /\ requested = <<>>
    /\ responses = <<>>
    /\ ri = 0
    /\ products = <<>>
    /\ escaped = FALSE
    /\ seen = NothingSeen
    /\ last = NoLast

\* extract_from_html_json and extract_product_info are not called on their
\* own
PureIdle ==
    /\ html_content = NoPage
    /\ extracted = NotExtracted
    /\ product_data = EmptyRecord
    /\ product_info = NoInfo

InitSize ==
    /\ WalkIdle
    /\ PureIdle
    /\ size_text \in SizeTexts
    /\ norm = NotComputed
    /\ detail = NoDetail
    /\ variant_data = NoVariant

NormalizeSize ==
    /\ norm = NotComputed
    /\ norm' = normalize_size(size_text)
    /\ UNCHANGED <<size_text, variantVars, walkVars, extractVars, infoVars>>

SpecSize == InitSize /\ [][NormalizeSize]_vars

InitVariants ==
    /\ WalkIdle
    /\ PureIdle
    /\ detail \in DetailPages
    /\ variant_data = NoVariant
    /\ size_text = <<>>
    /\ norm = NotComputed

FetchVariants ==
    /\ variant_data = NoVariant
    /\ variant_data' = fetch_product_variants(detail)
    /\ UNCHANGED <<detail, sizeVars, walkVars, extractVars, infoVars>>

SpecVariants == InitVariants /\ [][FetchVariants]_vars

\* ------------------------------------------------------------------------
\* The listing URLs, listing pages and detail pages of the walk
\* ------------------------------------------------------------------------

\* number of listing URLs passed to scrape_products
NumUrls == 2

\* a listing that runs out has at most this many pages with records
VarPages == 2

LavenderOil == <<"L","a","v","e","n","d","e","r"," ","O","i","l">>
SweetAlmondOil == <<"S","w","e","e","t"," ","A","l","m","o","n","d"," ","O","i","l">>
SheaButter == <<"S","h","e","a"," ","B","u","t","t","e","r">>

\* urls[i]: the even ones carry a query string
ListingUrl(i) ==
    IF i % 2 = 1
    THEN [text |-> "https://shop.test/oils-" \o ToString(i) \o ".html", has_query |-> FALSE]
    ELSE [text |-> "https://shop.test/catalogsearch/result/?q=oil" \o ToString(i),
          has_query |-> TRUE]

Lavender10 ==
    [EmptyRecord EXCEPT !.name = Str(LavenderOil), !.price = Num("10"),
                        !.size = Str(<<"4"," ","o","z">>),
                        !.url = Str("/lavender-oil.html")]
Lavender12 ==
    [EmptyRecord EXCEPT !.name = Str(LavenderOil), !.price = Num("12"),
                        !.size = Str(<<"4"," ","o","z">>)]
LavenderByTitle ==
    [EmptyRecord EXCEPT !.title = Str(LavenderOil), !.price = Num("14"),
                        !.weight = Str(<<"8"," ","o","z">>)]
Nameless ==
    [EmptyRecord EXCEPT !.final_price = Str("5.00"), !.size = Str(Kg1)]
SweetAlmond ==
    [EmptyRecord EXCEPT !.name = Str(SweetAlmondOil), !.price = Num("12.5"),
                        !.size = Str(NA), !.url = Str("/sweet-almond-oil.html")]
NotAMapping == [EmptyRecord EXCEPT !.kind = "scalar"]

BlankPage ==
    [exc |-> FALSE, status |-> 200, product |-> TRUE, starting |-> TRUE,
     json |-> <<>>, lis |-> <<>>, lines |-> <<>>]

JsonList(items) == [t |-> "list", products |-> "absent", items |-> items]
JsonInvalid == [t |-> "invalid", products |-> "absent", items |-> <<>>]
JsonProducts(items) == [t |-> "dict", products |-> "list", items |-> items]

\* embedded JSON: a list
PgLavender == [BlankPage EXCEPT !.json = << JsonList(<<Lavender10, SweetAlmond>>) >>]

\* embedded JSON: a first match that does not parse, then a mapping with a
\* products list
PgMixed ==
    [BlankPage EXCEPT
       !.json = << JsonInvalid, JsonProducts(<<LavenderByTitle, Nameless, NotAMapping>>) >>]

\* structured markup: one fragment with a product link, one without
PgMarkup ==
    [BlankPage EXCEPT
       !.lis = << [anchors |-> << [href |-> "/lavender-oil.html", text |-> <<"V","i","e","w">>],
                                  [href |-> "/lavender-oil.html",
                                   text |-> <<" ">> \o LavenderOil \o <<" ">>] >>,
                   price |-> "12.00"],
                  [anchors |-> << [href |-> "/about.html", text |-> <<"M","o","r","e">>] >>,
                   price |-> ""] >>]

PgNoStartingAt ==
    [BlankPage EXCEPT !.starting = FALSE, !.json = << JsonList(<<Lavender12>>) >>]
PgNotFound ==
    [BlankPage EXCEPT !.status = 404, !.json = << JsonList(<<Lavender12>>) >>]
PgFetchError == [BlankPage EXCEPT !.exc = TRUE, !.status = 0]
PgNothing ==
    [BlankPage EXCEPT !.lines = << [anchor |-> <<"B","l","o","g">>, price |-> "1"] >>]
PgEmptyProducts == [BlankPage EXCEPT !.json = << JsonProducts(<<>>) >>]

\* responses that end a listing
LastPages == { PgNoStartingAt, PgNotFound, PgFetchError, PgNothing, PgEmptyProducts }

ListingPages == { PgLavender, PgMixed, PgMarkup } \cup LastPages

\* loose pattern: the page an endless listing serves for every p
PgEndless ==
    [BlankPage EXCEPT
       !.lines = << [anchor |-> SheaButter, price |-> ""],
                    [anchor |-> <<>>, price |-> "6.50"] >>]

\* the responses page p of the current listing may get
Responses(e, p) ==
    IF e THEN {PgEndless}
    ELSE IF p <= VarPages THEN ListingPages
    ELSE LastPages

AlmondDetail ==
    [exc |-> FALSE, status |-> 200, table |-> TRUE,
     rows |-> << [text |-> Oz4, price |-> "10"], [text |-> Gal1NoBlank, price |-> "80"] >>,
     body |-> <<>>, body_price |-> ""]
MissingDetail ==
    [exc |-> FALSE, status |-> 404, table |-> FALSE, rows |-> <<>>,
     body |-> <<>>, body_price |-> ""]

WalkDetails == {AlmondDetail, MissingDetail}

\* the raw mappings returned so far: `first` keeps, per name they yield, the
\* first one returned; `named` keeps, per value of the name key, the first
\* one returned; `differs` holds the values of the name key that were
\* returned again at another price
RECURSIVE NoteReturned(_, _)
NoteReturned(s, recs) ==
    IF recs = <<>> THEN s
    ELSE LET r == Head(recs)
             s1 == IF \E i \in 1..Len(s.first) : NameOf(s.first[i]) = NameOf(r)
                   THEN s
                   ELSE [s EXCEPT !.first = Append(@, r)]
             known == {i \in 1..Len(s.named) : s.named[i].name = r.name}
             s2 == IF r.name = Missing THEN s1
                   ELSE IF known = {} THEN [s1 EXCEPT !.named = Append(@, r)]
                   ELSE IF \E i \in known : PriceOf(s.named[i]) # PriceOf(r)
                   THEN [s1 EXCEPT !.differs = @ \cup {r.name}]
                   ELSE s1
         IN  IF r.kind # "dict" THEN NoteReturned(s, Tail(recs))
             ELSE NoteReturned(s2, Tail(recs))

\* ------------------------------------------------------------------------
\* scrape_products
\* ------------------------------------------------------------------------

Init ==
    /\ size_text = <<>>
    /\ norm = NotComputed
    /\ detail = NoDetail
    /\ variant_data = NoVariant
    /\ pc = "next_url"
    /\ ui = 1
    /\ endless = FALSE
    /\ page = 0
    /\ all_products = <<>>
    /\ requested = <<>>
    /\ responses = <<>>
    /\ ri = 0
    /\ products = <<>>
    /\ escaped = FALSE
    /\ seen = NothingSeen
    /\ last = NoLast
    /\ html_content = NoPage
    /\ extracted = NotExtracted
    /\ product_data = EmptyRecord
    /\ product_info = NoInfo

\* line 683 taking the next URL, line 685 entering extract_with_pagination
StartUrl ==
    /\ pc = "next_url"
    /\ ui <= NumUrls
    /\ pc' = "fetch"
    /\ endless' \in BOOLEAN
    /\ page' = 1
    /\ all_products' = <<>>
    /\ requested' = <<>>
    /\ responses' = <<>>
    /\ ri' = 0
    /\ last' = NoLast
    /\ detail' = NoDetail
    /\ variant_data' = NoVariant
    /\ UNCHANGED <<ui, products, escaped, seen, sizeVars, extractVars, infoVars>>

\* lines 633-668: one turn of the loop over the pages
FetchPage ==
    /\ pc = "fetch"
    /\ \E resp \in Responses(endless, page) : \E step \in {PaginationStep(resp)} :
             /\ requested' = Append(requested, PageUrl(ListingUrl(ui), page))
             /\ responses' = Append(responses, resp)
             /\ all_products' = all_products \o step.page_products
             /\ seen' = NoteReturned(seen, step.page_products)
             /\ IF LoopEnds(step.stop, page)
                THEN pc' = "paginated" /\ page' = page
                ELSE pc' = "fetch" /\ page' = page + 1
    /\ UNCHANGED <<ui, endless, ri, products, escaped, last, sizeVars, variantVars,
                   extractVars, infoVars>>

\* lines 685-688: extract_with_pagination has returned
BeginRecords ==
    /\ pc = "paginated"
    /\ IF all_products # <<>>
       THEN pc' = "records" /\ ri' = 1 /\ ui' = ui
       ELSE pc' = "next_url" /\ ri' = 0 /\ ui' = ui + 1
    /\ requested' = <<>>
    /\ responses' = <<>>
    /\ UNCHANGED <<endless, page, all_products, products, escaped, seen, last,
                   sizeVars, variantVars, extractVars, infoVars>>

\* lines 688-695: one turn of the loop over the records
ProcessRecord ==
    /\ pc = "records"
    /\ \E resp \in WalkDetails :
         LET product == all_products[ri]
             outcome == RecordOutcome(products, product)
             fetched == Fetches(outcome, product)
             handler == AfterRecordException(ui)
         IN  /\ last' = [outcome |-> outcome, raw |-> product, fetched |-> fetched]
             /\ detail' = IF fetched THEN resp ELSE NoDetail
             /\ variant_data' = IF fetched THEN fetch_product_variants(resp) ELSE NoVariant
             /\ products' = IF outcome = "appended"
                            THEN Append(products, extract_product_info(product, resp))
                            ELSE products
             /\ IF outcome = "raised"
                THEN pc' = handler.pc /\ ui' = handler.ui /\ escaped' = handler.escaped
                         /\ ri' = ri
                ELSE IF ri = Len(all_products)
                THEN pc' = "next_url" /\ ui' = ui + 1 /\ escaped' = escaped /\ ri' = ri
                ELSE pc' = "records" /\ ui' = ui /\ escaped' = escaped /\ ri' = ri + 1
    /\ UNCHANGED <<endless, page, all_products, requested, responses, seen, sizeVars,
                   extractVars, infoVars>>

\* lines 697-701: the loop over the URLs is over
Return ==
    /\ pc = "next_url"
    /\ ui > NumUrls
    /\ pc' = "done"
    /\ UNCHANGED <<ui, endless, page, all_products, requested, responses, ri,
                   products, escaped, seen, last, sizeVars, variantVars,
                   extractVars, infoVars>>

Next == StartUrl \/ FetchPage \/ BeginRecords \/ ProcessRecord \/ Return

Spec == Init /\ [][Next]_vars

\* the program is sequential and every request returns or times out: a
\* step that can be taken is taken
FairSpec == Init /\ [][Next]_vars /\ WF_vars(Next)

\* ------------------------------------------------------------------------
\* The extraction cascade on its own
\* ------------------------------------------------------------------------

\* the lines of a page are taken up to this number
MaxLines == 3

CocoaButter == <<"C","o","c","o","a"," ","B","u","t","t","e","r">>
About == <<"A","b","o","u","t">>

JsonOther == [t |-> "dict", products |-> "absent", items |-> <<>>]
JsonProductsNoList == [t |-> "dict", products |-> "other", items |-> <<>>]

\* what the JSON patterns match on a page; the patterns that capture a list
\* come before those that capture a mapping
JsonMatches ==
    { <<>>,
      << JsonInvalid >>,
      << JsonList(<<>>) >>,
      << JsonOther, JsonProductsNoList >>,
      << JsonList(<<Lavender10>>) >>,
      << JsonInvalid, JsonProducts(<<SweetAlmond>>) >>,
      << JsonProducts(<<>>) >>,
      << JsonList(<<>>), JsonProducts(<<>>) >> }

LavenderItem ==
    [anchors |-> << [href |-> "/lavender-oil.html", text |-> <<"V","i","e","w">>],
                    [href |-> "/lavender-oil.html", text |-> LavenderOil] >>,
     price |-> "12.00"]

NavigationItem ==
    [anchors |-> << [href |-> "/about.html", text |-> <<"M","o","r","e">>] >>,
     price |-> "3.00"]

\* the <li> fragments of a page
ItemLists == { <<>>, << NavigationItem >>, << LavenderItem >>,
               << NavigationItem, LavenderItem >> }

\* a line holds a link that qualifies as a name, a navigation link, or a
\* 'Starting at' price
LineKinds ==
    { [anchor |-> SheaButter, price |-> ""],
      [anchor |-> CocoaButter, price |-> ""],
      [anchor |-> About, price |-> ""],
      [anchor |-> <<>>, price |-> "6.50"],
      [anchor |-> <<>>, price |-> "7.25"] }

HtmlPages ==
    { [BlankPage EXCEPT !.json = j, !.lis = li, !.lines = ln] :
        j \in JsonMatches, li \in ItemLists, ln \in SeqsUpTo(LineKinds, MaxLines) }

InitExtract ==
    /\ WalkIdle
    /\ size_text = <<>>
    /\ norm = NotComputed
    /\ detail = NoDetail
    /\ variant_data = NoVariant
    /\ html_content \in HtmlPages
    /\ extracted = NotExtracted
    /\ product_data = EmptyRecord
    /\ product_info = NoInfo

ExtractFromHtml ==
    /\ extracted = NotExtracted
    /\ extracted' = extract_from_html_json(html_content)
    /\ UNCHANGED <<html_content, sizeVars, variantVars, walkVars, infoVars>>

SpecExtract == InitExtract /\ [][ExtractFromHtml]_vars

\* ------------------------------------------------------------------------
\* extract_product_info on its own
\* ------------------------------------------------------------------------

\* custom_attributes as a list of attribute objects, and as a flat mapping
AttributeList ==
    [form |-> "list",
     items |-> << [code |-> "color", value |-> <<"b","l","u","e">>],
                  [code |-> "volume", value |-> <<"2","5","0"," ","m","l">>] >>]
AttributeMapping ==
    [form |-> "dict", items |-> << [code |-> "size", value |-> Kg1] >>]

\* the raw records: every combination of the price, size, attribute and URL
\* keys below
InfoRecords ==
    { [EmptyRecord EXCEPT
         !.name = Str(LavenderOil),
         !.price = pr, !.final_price = fp, !.special_price = sp,
         !.size = sz, !.weight = wt, !.custom_attributes = ca,
         !.url = u, !.product_url = pu] :
        pr \in {Missing, Num("12.5"), Num("0"), Str("")},
        fp \in {Missing, Str("5.00")},
        sp \in {Missing, Num("3")},
        sz \in {Missing, Str(<<"4"," ","o","z">>), Str(NA)},
        wt \in {Missing, Str(<<"8"," ","o","z">>)},
        ca \in {NoAttributes, AttributeList, AttributeMapping},
        u \in {Missing, Str("/lavender-oil.html")},
        pu \in {Missing, Str("/p/1")} }

\* a grouped table whose only row carries no price
NoPriceDetail ==
    [exc |-> FALSE, status |-> 200, table |-> TRUE,
     rows |-> << [text |-> <<"1","0","0","0"," ","g">>, price |-> ""] >>,
     body |-> <<>>, body_price |-> ""]

InfoDetails == {AlmondDetail, MissingDetail, NoPriceDetail}

InitInfo ==
    /\ WalkIdle
    /\ size_text = <<>>
    /\ norm = NotComputed
    /\ detail = NoDetail
    /\ variant_data = NoVariant
    /\ html_content = NoPage
    /\ extracted = NotExtracted
    /\ product_data \in InfoRecords
    /\ product_info = NoInfo

\* lines 524-624; resp is what the detail page answers when it is fetched
ExtractInfo ==
    /\ product_info = NoInfo
    /\ \E resp \in InfoDetails :
         /\ detail' = IF NeedsVariants(product_data) THEN resp ELSE NoDetail
         /\ variant_data' = IF NeedsVariants(product_data)
                            THEN fetch_product_variants(resp) ELSE NoVariant
         /\ product_info' = extract_product_info(product_data, resp)
    /\ UNCHANGED <<product_data, sizeVars, walkVars, extractVars>>

SpecInfo == InitInfo /\ [][ExtractInfo]_vars

\* ------------------------------------------------------------------------
\* Properties
\* ------------------------------------------------------------------------

Indices(s) == 1..Len(s)

\* C1: no two records of the result of scrape_products have the same name,
\* whatever key (name, title, label) the raw record carried the name under.
C1_NamesAreUnique ==
    \A i, j \in Indices(products) : i # j => products[i].name # products[j].name

\* C2: no record of the result of scrape_products has the name "Unknown".
C2_NoUnknownName ==
    \A i \in Indices(products) : products[i].name # Str(Unknown)

\* C3: when two raw records with the same name field were returned at
\* different prices, the result of scrape_products holds exactly one entry
\* with that name, and it is the one built from the first raw record
\* returned under that name: a later duplicate does not replace it.
C3_FirstSeenKept ==
    pc = "done" =>
        \A n \in seen.differs :
            LET hits == {i \in Indices(products) : products[i].name = n}
                first == seen.first[CHOOSE k \in Indices(seen.first) :
                                        NameOf(seen.first[k]) = n]
            IN  /\ Cardinality(hits) = 1
                /\ \A i \in hits :
                       \E d \in WalkDetails : products[i] = extract_product_info(first, d)

\* the page is the end of the listing: it lacks a marker, is not a 200, or
\* yields no record
EndsListing(resp) ==
    \/ resp.exc
    \/ resp.status # 200
    \/ ~resp.product
    \/ ~resp.starting
    \/ extract_from_html_json(resp).none
    \/ extract_from_html_json(resp).list = <<>>

RECURSIVE RecordsOfPages(_)
RecordsOfPages(resps) ==
    IF resps = <<>> THEN <<>>
    ELSE RecordsOfPages(SubSeq(resps, 1, Len(resps) - 1))
           \o extract_from_html_json(resps[Len(resps)]).list

\* C4: if page k of a listing URL is the first page that ends the listing,
\* extract_with_pagination returns exactly the records of pages 1..k-1 and
\* requests no page after k.
C4_StopsAtFirstEndingPage ==
    LET ends == {k \in Indices(responses) : EndsListing(responses[k])}
    IN  ends # {} =>
            LET k == CHOOSE e \in ends : \A f \in ends : e <= f
            IN  /\ pc = "paginated"
                /\ Len(requested) = k
                /\ \A p \in 1..k : requested[p] = PageUrl(ListingUrl(ui), p)
                /\ all_products = RecordsOfPages(SubSeq(responses, 1, k - 1))

\* page 3 is the first without the 'starting at' marker; pages 1 and 2 gave
\* records
C4_Witness ==
    /\ pc = "paginated"
    /\ Len(responses) = 3
    /\ responses[3] = PgNoStartingAt
    /\ Len(all_products) >= 2

\* C5: the raw record {name: "Sweet Almond Oil", price: 12.5, size: "N/A",
\* url: "/sweet-almond-oil.html"}, with a grouped table of ("4oz", "$10") and
\* ("1gal", "$80") on its detail page, becomes
\* {name: "Sweet Almond Oil", price: "$10", size: "4oz"}.
C5_SweetAlmondExample ==
    (last.outcome = "appended" /\ last.raw = SweetAlmond /\ detail = AlmondDetail) =>
        products[Len(products)] =
            [name |-> Str(SweetAlmondOil), price |-> "$10", size |-> Oz4]

\* C6: normalize_size maps "1 gal" to 1 x 3785.41, "16 oz" to 16 x 28.3495,
\* "1 kg" to 1000 and "500 ml" to 500.
C6_UnitConversions ==
    norm # NotComputed =>
        /\ size_text = Gal1 => norm = [mag |-> 10 * GalFactor, family |-> "volume"]
        /\ size_text = Oz16 => norm = [mag |-> 160 * OzFactor, family |-> "weight"]
        /\ size_text = Kg1 => norm = [mag |-> 10 * KgFactor, family |-> "weight"]
        /\ size_text = Ml500 => norm = [mag |-> 5000 * MlFactor, family |-> "volume"]

\* the qualifying rows of the grouped table of a detail page that was
\* fetched with status 200
TableVariants(d) ==
    IF ~d.exc /\ d.status = 200 /\ d.table THEN CollectVariants(d.rows) ELSE <<>>

Magnitude(v) == normalize_size(v.size).mag

C8_UnknownNeverWins ==
    /\ normalize_size(Assorted) = [mag |-> Infinity, family |-> "unknown"]
    /\ (variant_data # NoVariant /\ TableVariants(detail) # <<>>) =>
           (Magnitude(variant_data) = Infinity =>
               ~\E j \in Indices(TableVariants(detail)) :
                    /\ TableVariants(detail)[j] # variant_data
                    /\ FindSize(TableVariants(detail)[j].size, RowUnits1, RowUnits2) # <<>>)

\* C9: fetch_product_variants never raises; it returns a mapping with
\* exactly a size and a price, and the sentinel whenever the fetch failed or
\* neither a variant nor a size token was found.
C9_AlwaysSizeAndPrice ==
    variant_data # NoVariant =>
        /\ DOMAIN variant_data = {"size", "price"}
        /\ variant_data.size # <<>>
        /\ ( \/ detail.exc
             \/ detail.status # 200
             \/ ( /\ TableVariants(detail) = <<>>
                  /\ FindSize(detail.body, PageUnits1, RowUnits2) = <<>> ) )
           => variant_data = Sentinel

\* a 404 whose body holds a grouped table gave the sentinel
C9_Witness ==
    /\ detail.status = 404
    /\ detail.table
    /\ detail.rows # <<>>
    /\ variant_data = Sentinel

\* C10: no failure leaves scrape_products: an exception on a page ends the
\* pagination of that URL only and keeps the records of the earlier pages,
\* an exception while a record is processed ends that URL only, the walk
\* goes on with the next URL, and what was placed in the result stays there.
C10_FailuresStayInside ==
    [][ /\ ~escaped'
        /\ Len(products) <= Len(products')
        /\ SubSeq(products', 1, Len(products)) = products
        /\ (pc = "fetch" /\ responses'[Len(responses')].exc) =>
               (pc' = "paginated" /\ ui' = ui /\ all_products' = all_products)
        /\ (pc = "records" /\ last'.outcome = "raised") =>
               (pc' = "next_url" /\ ui' = ui + 1 /\ products' = products)
      ]_vars

\* a record of the first URL raised after a record had been placed, and the
\* second URL is next
C10_Witness ==
    /\ last.outcome = "raised"
    /\ pc = "next_url"
    /\ ui = 2
    /\ products # <<>>
    /\ ~escaped

\* the records of the embedded-JSON strategy: the items of the first match
\* that parses to a list, or to a mapping with a products list, and holds a
\* record
JsonRecords(p) ==
    LET good == {i \in Indices(p.json) :
                    /\ p.json[i].items # <<>>
                    /\ \/ p.json[i].t = "list"
                       \/ p.json[i].t = "dict" /\ p.json[i].products = "list"}
    IN  IF good = {} THEN <<>>
        ELSE p.json[CHOOSE i \in good : \A j \in good : i <= j].items

\* the first non-empty of three lists of records, None when all are empty
FirstYield(a, b, c) ==
    IF a # <<>> THEN List(a)
    ELSE IF b # <<>> THEN List(b)
    ELSE IF c # <<>> THEN List(c)
    ELSE NoList

\* C11: extract_from_html_json returns none or a non-empty sequence: the
\* records of the first strategy (embedded JSON, structured markup, loose
\* pattern) that yields a record, and none only when no strategy yields one.
C11_FirstYieldingStrategyWins ==
    extracted # NotExtracted =>
        /\ extracted.none \/ extracted.list # <<>>
        /\ extracted = FirstYield(JsonRecords(html_content),
                                  ParseFragments(html_content.lis),
                                  extract_simple_product_pattern(html_content).list)

\* the price fields, in the order they are read
price_fields == <<"price", "final_price", "regular_price", "special_price">>

PriceField(raw, f) ==
    CASE f = "price" -> raw.price
      [] f = "final_price" -> raw.final_price
      [] f = "regular_price" -> raw.regular_price
      [] f = "special_price" -> raw.special_price

\* the price as the first present field gives it: "$" and the number for a
\* number, the text itself for a text, "N/A" when no field is present
FirstPresentPrice(raw) ==
    LET present == {i \in Indices(price_fields) :
                       PriceField(raw, price_fields[i]) # Missing}
    IN  IF present = {} THEN "N/A"
        ELSE LET v == PriceField(raw,
                                 price_fields[CHOOSE i \in present : \A j \in present : i <= j])
             IN  IF v.t = "num" THEN "$" \o v.v ELSE v.v

\* enrichment left the price as computed from the raw record
PriceNotEnriched ==
    \/ variant_data = NoVariant
    \/ variant_data.size = VariousSizes
    \/ variant_data.price = "N/A"

\* C12: the price of extract_product_info is that of the first present field
\* among price, final_price, regular_price, special_price: "$" and the value
\* for a number, 0 included, the text itself otherwise, and "N/A" only when
\* none of the four is present.
C12_FirstPresentPrice ==
    (product_info # NoInfo /\ PriceNotEnriched) =>
        product_info.price = FirstPresentPrice(product_data)

\* a literal size field is present in the raw record
HasLiteralSize(raw) ==
    \E i \in Indices(size_fields) : Field(raw, size_fields[i]) # Missing

\* the size when custom_attributes is consulted only in the absence of a
\* literal field
LiteralFirstSize(raw) ==
    IF HasLiteralSize(raw) THEN LiteralSize(raw) ELSE CustomSize(raw, NA)

\* the variant resolver did not give a size
SizeNotEnriched ==
    variant_data = NoVariant \/ variant_data.size = VariousSizes

\* C13: the size of extract_product_info is that of the first present
\* literal field among size, weight, volume, capacity, amount;
\* custom_attributes gives it only when no literal field is present, so it
\* never replaces a literal size; and the size is "N/A" only when neither
\* has one.
C13_LiteralSizeBeforeAttributes ==
    product_info # NoInfo =>
        /\ SizeNotEnriched => product_info.size = LiteralFirstSize(product_data)
        /\ product_info.size = NA => LiteralFirstSize(product_data) = NA

\* C14: enrichment never changes the name; with the sentinel size it leaves
\* name, price and size as computed from the raw record; with another size
\* it overwrites the size, and the price only when the variant's price is
\* not "N/A".
C14_EnrichmentFrame ==
    product_info # NoInfo =>
        /\ DOMAIN product_info = {"name", "price", "size"}
        /\ product_info.name = NameOf(product_data)
        /\ SizeNotEnriched => product_info = BaseInfo(product_data)
        /\ ~SizeNotEnriched =>
               /\ product_info.size = variant_data.size
               /\ product_info.price =
                      IF variant_data.price # "N/A" THEN variant_data.price
                      ELSE BaseInfo(product_data).price

\* the variant had a size and no price: the size was overwritten and the
\* price of the raw record kept
C14_Witness ==
    /\ variant_data = [size |-> <<"1","0","0","0"," ","g">>, price |-> "N/A"]
    /\ product_data.price = Num("12.5")
    /\ product_info.size = <<"1","0","0","0"," ","g">>
    /\ product_info.price = "$12.5"

\* the page requests of the current listing URL: p = 1, 2, ... in order,
\* none twice, at most max_pages of them, each but the first after a page
\* that had status 200, both markers and a record
PageRequestsInOrder ==
    /\ Len(requested) <= MaxPages
    /\ Len(responses) = Len(requested)
    /\ \A p \in Indices(requested) : requested[p] = PageUrl(ListingUrl(ui), p)
    /\ \A p, q \in Indices(requested) : p # q => requested[p] # requested[q]
    /\ \A p \in 1..(Len(requested) - 1) : ~EndsListing(responses[p])

\* C15: for every listing URL scrape_products requests the pages in the
\* order p = 1, 2, ..., no page twice, page N+1 only after page N returned
\* status 200 with both markers and a record, and at most 30 pages; and the
\* walk over the URL list terminates.
C15_PagesInOrderAndTerminates ==
    []PageRequestsInOrder /\ <>(pc = "done")

\* a listing that never runs out was left after its 30th page
C15_Witness ==
    /\ pc = "paginated"
    /\ Len(requested) = MaxPages
    /\ ~EndsListing(responses[MaxPages])

\* C16: a detail page is fetched only in the turn of a raw record (detail
\* holds the response of the turn's fetch), and then the record is a mapping
\* no product already appended shares the name of, its size after its own
\* fields and custom attributes is 'N/A' or 'Various sizes available', and
\* it has a url, link or product_url; the turn that fetched leaves the
\* record, so no record has its detail page fetched twice.
C16_DetailFetchedOnlyWhenNeeded ==
    [][/\ pc # "records" => detail' \in {NoDetail, detail}
       /\ (pc = "records" /\ detail' # NoDetail) =>
            /\ all_products[ri].kind = "dict"
            /\ \A i \in Indices(products) : products[i].name # all_products[ri].name
            /\ CustomSize(all_products[ri], LiteralSize(all_products[ri]))
                  \in {NA, VariousSizes}
            /\ \/ TruthyVal(all_products[ri].url)
               \/ TruthyVal(all_products[ri].link)
               \/ TruthyVal(all_products[ri].product_url)
            /\ pc' # "records" \/ ri' = ri + 1]_vars

\* the detail page of a record was fetched after other products had been
\* appended, one of them from a record with a url and a size of its own
C16_Witness ==
    /\ detail # NoDetail
    /\ last.outcome = "appended"
    /\ \E i \in Indices(products) :
          products[i].name = Str(LavenderOil) /\ products[i].size = <<"4"," ","o","z">>

\* the lines whose anchor text qualifies as a name
NameLines(lines) ==
    SelectSeq([i \in 1..Len(lines) |-> i],
              LAMBDA i : /\ lines[i].anchor # <<>>
                         /\ QualifiesAsName(Strip(lines[i].anchor), StopWords7))

\* the last 'Starting at' price of the lines from..to, 'N/A' without one
LastPrice(lines, from, to) ==
    IF \E j \in from..to : lines[j].price # ""
    THEN "$" \o lines[CHOOSE j \in from..to :
                         /\ lines[j].price # ""
                         /\ \A k \in from..to : lines[k].price # "" => k <= j].price
    ELSE "N/A"

\* one record per line whose anchor qualifies, in the order of the lines,
\* each with the last price found before the next name
OncePerName(lines) ==
    [k \in 1..Len(NameLines(lines)) |->
        [EmptyRecord EXCEPT
           !.name = Str(Strip(lines[NameLines(lines)[k]].anchor)),
           !.price = Str(LastPrice(lines, NameLines(lines)[k],
                                   IF k < Len(NameLines(lines))
                                   THEN NameLines(lines)[k + 1] - 1
                                   ELSE Len(lines))),
           !.url = Str("N/A"),
           !.size = Str(VariousSizes)]]

\* no embedded JSON match returns and no fragment yields a product: the
\* page is answered by extract_simple_product_pattern
LooseAnswers(p) ==
    /\ \A i \in Indices(p.json) : ~JsonReturns(p.json[i])
    /\ \A i \in Indices(p.lis) : parse_product_html(p.lis[i]) = NoneFound

\* C17: extract_simple_product_pattern returns each accumulated product
\* once: as many records as anchors whose text qualifies as a name, each
\* 'Starting at' price on the most recently found name only, and an anchor
\* rejected as a navigation link neither repeats nor alters a record.
C17_EachProductOnce ==
    (extracted # NotExtracted /\ LooseAnswers(html_content)) =>
        /\ extracted.none = (NameLines(html_content.lines) = <<>>)
        /\ extracted.list = OncePerName(html_content.lines)

====
